---- MODULE Spec2Model ----
(***************************************************************************)
(* Layered configuration resolution of git-dive (src/config.rs).           *)
(*                                                                         *)
(* A Config holds four sources in precedence order: the CLI parameters     *)
(* and the GIT_CONFIG_* environment (both InMemoryConfig), then the        *)
(* repository's and the system's git2::Config (both optional).  Typed      *)
(* lookups ask the sources in order; RawField / FallbackField read typed   *)
(* values through FieldReader; Config::dump renders fields by section.     *)
(*                                                                         *)
(* Text is modelled as a sequence of one-character strings, so parsing     *)
(* and splitting are computed character by character as Rust does.         *)
(***************************************************************************)
EXTENDS Integers, Sequences, FiniteSets, TLC

VARIABLES
    cliParams,      \* git_config_env::ConfigParameters: <<key, Option<value>>> items
    envPairs,       \* git_config_env::ConfigEnv: <<key, value>> items
    config,         \* the Config: [cli, env, repo, system]
    ret,            \* the last operation and what it returned
    fallbackCalls   \* how often the last operation invoked a fallback function

vars == <<cliParams, envPairs, config, ret, fallbackCalls>>

(***************************************************************************)
(* Bounds of the model.                                                    *)
(***************************************************************************)
\* CLI parameters plus environment entries of one process, in total.
MaxEntries == 2
\* Pairs a single Keyed Value Store is built from (SpecStore).
MaxPairs == 3
\* Fields handed to one dump (SpecDump).
MaxFields == 3

(***************************************************************************)
(* Option and Result.                                                      *)
(***************************************************************************)
None == [some |-> FALSE]
Some(v) == [some |-> TRUE, val |-> v]
IsSome(o) == o.some
Unwrap(o) == o.val

Ok(v) == [ok |-> TRUE, val |-> v]
Err(e) == [ok |-> FALSE, err |-> e]

(***************************************************************************)
(* Texts of the model.                                                     *)
(***************************************************************************)
TxtTrue == <<"t", "r", "u", "e">>
TxtFalse == <<"f", "a", "l", "s", "e">>
TxtSeven == <<"7">>
TxtMinus12 == <<"-", "1", "2">>
TxtX == <<"x">>
TxtEmpty == <<>>

KeyAB == <<"a", ".", "b">>
KeyFlag == <<"a", ".", "f", "l", "a", "g">>
Keys == {KeyAB, KeyFlag}

NameXA == <<"x", ".", "a">>
NameXB == <<"x", ".", "b">>
NameYC == <<"y", ".", "c">>
NameNoDot == <<"n", "o", "d", "o", "t">>

\* Sequences over S of length at most n.
BSeq(S, n) == UNION {[1..m -> S] : m \in 0..n}

Last(s) == s[Len(s)]

(***************************************************************************)
(* str::parse::<bool>() and str::parse::<i32>() / <i64>() of Rust's        *)
(* standard library, as used by InMemoryConfig.                            *)
(***************************************************************************)
ParseBool(s) ==
    IF s = TxtTrue THEN Ok(TRUE)
    ELSE IF s = TxtFalse THEN Ok(FALSE)
    ELSE Err("ParseBoolError")

DigitChars == <<"0", "1", "2", "3", "4", "5", "6", "7", "8", "9">>
IsDigit(c) == \E d \in 1..10 : DigitChars[d] = c
DigitOf(c) == (CHOOSE d \in 1..10 : DigitChars[d] = c) - 1

\* i32::MAX and i32::MIN.
I32Max == 2147483647
I32Min == -I32Max - 1

\* checked_mul(10) followed by checked_add(d) (positive) or checked_sub(d)
\* (negative) would leave the type's range.  An i64 overflow needs a text of
\* 19 digits; the texts of the model are shorter, and the checker's own
\* integers stop (with an error, never silently) long before, so only the
\* 32-bit width has limits to state.
Overflows(acc, d, positive, bits) ==
    /\ bits = 32
    /\ IF positive THEN acc > (I32Max - d) \div 10
                   ELSE acc < (I32Min + d + 9) \div 10

\* Accumulate the digits of s onto acc: positive numbers add each digit,
\* negative ones subtract it.
RECURSIVE ParseDigits(_, _, _, _)
ParseDigits(s, acc, positive, bits) ==
    IF s = <<>> THEN Ok(acc)
    ELSE IF ~IsDigit(Head(s)) THEN Err("ParseIntError(InvalidDigit)")
    ELSE LET d == DigitOf(Head(s)) IN
         IF Overflows(acc, d, positive, bits)
         THEN Err(IF positive THEN "ParseIntError(PosOverflow)"
                              ELSE "ParseIntError(NegOverflow)")
         ELSE ParseDigits(Tail(s), IF positive THEN acc * 10 + d ELSE acc * 10 - d,
                          positive, bits)

\* <iN as FromStr>::from_str: decimal digits after an optional sign.
ParseInt(s, bits) ==
    IF s = <<>> THEN Err("ParseIntError(Empty)")
    ELSE IF Len(s) = 1 /\ Head(s) \in {"+", "-"} THEN Err("ParseIntError(InvalidDigit)")
    ELSE IF Head(s) = "+" THEN ParseDigits(Tail(s), 0, TRUE, bits)
    ELSE IF Head(s) = "-" THEN ParseDigits(Tail(s), 0, FALSE, bits)
    ELSE ParseDigits(s, 0, TRUE, bits)

\* String -> PathBuf (`v.into()`): the same bytes, as a path.
PathBuf(s) == [path |-> s]

(***************************************************************************)
(* InMemoryConfig: the Keyed Value Store.  `values` is the BTreeMap from a *)
(* key to the Vec of its values, modelled as a function on the keys it     *)
(* holds.                                                                  *)
(***************************************************************************)
EmptyValues == [k \in {} |-> <<>>]

\* The loop of from_env: values.entry(key).or_insert_with(Vec::new).push(value)
RECURSIVE PushAll(_, _)
PushAll(values, env) ==
    IF env = <<>> THEN values
    ELSE LET key == Head(env)[1]
             value == Head(env)[2]
             entry == IF key \in DOMAIN values THEN values[key] ELSE <<>>
         IN  PushAll([k \in DOMAIN values \cup {key} |->
                          IF k = key THEN Append(entry, value) ELSE values[k]],
                     Tail(env))

from_env(name, env) == [name |-> name, values |-> PushAll(EmptyValues, env)]

git_env(pairs) == from_env("git-config-env", pairs)

\* Faulty variant of UnwrapOrTrue: a parameter without a value reads as the
\* empty text (unwrap_or_default).
UnwrapOrEmpty(param) ==
    <<param[1], IF IsSome(param[2]) THEN Unwrap(param[2]) ELSE TxtEmpty>>

\* A parameter without a value (None) reads as the text "true".
UnwrapOrTrue(param) ==
    <<param[1], IF IsSome(param[2]) THEN Unwrap(param[2]) ELSE TxtTrue>>

git_cli(params) ==
    from_env("git-cli", [i \in 1..Len(params) |-> UnwrapOrTrue(params[i])])

\* Faulty variant of get_str: the first value of the key, not the last.
get_str_first(self, name) ==
    IF name \in DOMAIN self.values
    THEN Ok(Head(self.values[name]))
    ELSE Err("field is missing")

get_str(self, name) ==
    IF name \in DOMAIN self.values
    THEN Ok(Last(self.values[name]))
    ELSE Err("field is missing")

\* Result combinators as the getters use them.
unwrap_or(r, default) == IF r.ok THEN r.val ELSE default
and_then_parse_int(r, bits) == IF r.ok THEN ParseInt(r.val, bits) ELSE r
map_to_owned(r) == IF r.ok THEN Ok(r.val) ELSE r
map_into_path(r) == IF r.ok THEN Ok(PathBuf(r.val)) ELSE r

InMemory_get_bool(self, name) == ParseBool(unwrap_or(get_str(self, name), TxtTrue))
InMemory_get_i32(self, name) == and_then_parse_int(get_str(self, name), 32)
InMemory_get_i64(self, name) == and_then_parse_int(get_str(self, name), 64)
InMemory_get_string(self, name) == map_to_owned(get_str(self, name))
InMemory_get_path(self, name) == map_into_path(InMemory_get_string(self, name))

Types == {"bool", "i32", "i64", "string", "path"}

InMemory_get(self, ty, name) ==
    CASE ty = "bool" -> InMemory_get_bool(self, name)
      [] ty = "i32" -> InMemory_get_i32(self, name)
      [] ty = "i64" -> InMemory_get_i64(self, name)
      [] ty = "string" -> InMemory_get_string(self, name)
      [] ty = "path" -> InMemory_get_path(self, name)

(***************************************************************************)
(* git2::Config: an opened configuration file, outside this repository.    *)
(* Its typed lookups are opaque: a handle is the table of what each lookup *)
(* answers, and `origin` is what was opened.                               *)
(***************************************************************************)
Git2NotFound == Err("git2: config value was not found")
Git2Invalid == Err("git2: failed to parse value")

EntryInt(n, txt) ==
    [bool |-> Ok(TRUE), i32 |-> Ok(n), i64 |-> Ok(n),
     string |-> Ok(txt), path |-> Ok(PathBuf(txt))]

EntryText(txt) ==
    [bool |-> Git2Invalid, i32 |-> Git2Invalid, i64 |-> Git2Invalid,
     string |-> Ok(txt), path |-> Ok(PathBuf(txt))]

Git2Handle(origin, key, entry) == [origin |-> origin, table |-> (key :> entry)]

Git2_get(self, ty, name) ==
    IF name \in DOMAIN self.table THEN self.table[name][ty] ELSE Git2NotFound

\* What git2::Config::open(<git dir>/config) and open_default() may yield.
RepoHandles(key) ==
    {Git2Handle("repo", key, e) : e \in {EntryInt(8, <<"8">>), EntryText(<<"r">>)}}
SystemHandles(key) ==
    {Git2Handle("default", key, e) : e \in {EntryInt(9, <<"9">>), EntryText(<<"s">>)}}

(***************************************************************************)
(* Config: the Composite Resolver.                                         *)
(***************************************************************************)
\* A `&dyn ConfigSource`: one of the two implementations.
MemSource(c) == [kind |-> "InMemoryConfig", src |-> c]
Git2Source(c) == [kind |-> "git2::Config", src |-> c]

Source_get(source, ty, name) ==
    IF source.kind = "InMemoryConfig"
    THEN InMemory_get(source.src, ty, name)
    ELSE Git2_get(source.src, ty, name)

\* An Option<&dyn ConfigSource> flattened into the list.
Flatten(o) == IF IsSome(o) THEN <<Git2Source(Unwrap(o))>> ELSE <<>>

Config_system(params, pairs, system) ==
    [system |-> system, repo |-> None, env |-> git_env(pairs), cli |-> git_cli(params)]

add_repo(self, opened) == [self EXCEPT !.repo = opened]

\* Faulty variants of sources: the environment ahead of the CLI; the system
\* file ahead of the repository's; the two stores left out.
sources_env_first(self) ==
    <<MemSource(self.env), MemSource(self.cli)>>
        \o Flatten(self.repo) \o Flatten(self.system)

sources_system_first(self) ==
    <<MemSource(self.cli), MemSource(self.env)>>
        \o Flatten(self.system) \o Flatten(self.repo)

sources_optional_only(self) == Flatten(self.repo) \o Flatten(self.system)

sources(self) ==
    <<MemSource(self.cli), MemSource(self.env)>>
        \o Flatten(self.repo) \o Flatten(self.system)

Panicked(msg) == [panicked |-> TRUE, msg |-> msg]
IsPanic(r) == "panicked" \in DOMAIN r

\* The `for config in self.sources()` loop: the first Ok, if any.
\* `if let Ok(v) = ... { return Ok(v) }`, else on to the rest of the loop.
ReturnIfOk(r, rest) == IF r.ok THEN Some(r) ELSE rest

RECURSIVE FirstOk(_, _, _)
FirstOk(srcs, ty, name) ==
    IF srcs = <<>> THEN None
    ELSE ReturnIfOk(Source_get(Head(srcs), ty, name), FirstOk(Tail(srcs), ty, name))

\* Faulty variant of FirstError: the failure of the last source.
LastError(srcs, ty, name) ==
    IF srcs = <<>> THEN Panicked("always a source")
    ELSE Source_get(Last(srcs), ty, name)

\* "Fallback to the first error": sources().next().expect("always a source")
FirstError(srcs, ty, name) ==
    IF srcs = <<>> THEN Panicked("always a source")
    ELSE Source_get(Head(srcs), ty, name)

OrElse(found, otherwise) == IF IsSome(found) THEN Unwrap(found) ELSE otherwise

\* The body the five typed getters of Config share.
Config_get(self, ty, name) ==
    OrElse(FirstOk(sources(self), ty, name), FirstError(sources(self), ty, name))

Config_get_bool(self, name) == Config_get(self, "bool", name)
Config_get_i32(self, name) == Config_get(self, "i32", name)
Config_get_i64(self, name) == Config_get(self, "i64", name)
Config_get_string(self, name) == Config_get(self, "string", name)
Config_get_path(self, name) == Config_get(self, "path", name)

(***************************************************************************)
(* FieldReader, RawField and FallbackField.                                *)
(***************************************************************************)
\* with_context(|| format_err!("failed to read `{}`", name))
WithContext(r, name) ==
    IF IsPanic(r) \/ r.ok THEN r
    ELSE Err([context |-> "failed to read", field |-> name, source |-> r.err])

get_field(self, ty, name) == WithContext(Config_get(self, ty, name), name)

RawField(ty, name) == [name |-> name, ty |-> ty]

\* Result::ok(): a failure becomes None
Result_ok(r) ==
    IF IsPanic(r) THEN r
    ELSE IF r.ok THEN Some(r.val) ELSE None

RawField_get_from(field, cfg) == Result_ok(get_field(cfg, field.ty, field.name))

\* The fallback functions of the model: each returns a fixed default of its
\* type.
FallbackDefault(ty) ==
    CASE ty = "bool" -> FALSE
      [] ty \in {"i32", "i64"} -> 0
      [] ty = "string" -> <<"d">>
      [] ty = "path" -> PathBuf(<<"d">>)

Fallback(ty, cfg) == FallbackDefault(ty)

FallbackField(ty, name) == [field |-> RawField(ty, name), fallback |-> ty]

\* Faulty variant of unwrap_or_else: unwrap_or((fallback)(config)), which runs
\* the fallback function before looking at the raw value.
unwrap_or_eager(raw, fallback, cfg) ==
    IF IsPanic(raw) THEN [val |-> raw, calls |-> 1]
    ELSE IF IsSome(raw) THEN [val |-> Unwrap(raw), calls |-> 1]
    ELSE [val |-> Fallback(fallback, cfg), calls |-> 1]

\* unwrap_or_else(|| (fallback)(config)): the value, and how many times the
\* fallback function ran.
unwrap_or_else(raw, fallback, cfg) ==
    IF IsPanic(raw) THEN [val |-> raw, calls |-> 0]
    ELSE IF IsSome(raw) THEN [val |-> Unwrap(raw), calls |-> 0]
    ELSE [val |-> Fallback(fallback, cfg), calls |-> 1]

FallbackField_get_from(self, cfg) ==
    unwrap_or_else(RawField_get_from(self.field, cfg), self.fallback, cfg)

(***************************************************************************)
(* Config::dump over FallbackField<String> fields.                         *)
(***************************************************************************)
HasChar(s, c) == \E i \in 1..Len(s) : s[i] = c
FirstIndex(s, c) == CHOOSE i \in 1..Len(s) : s[i] = c /\ \A j \in 1..(i - 1) : s[j] # c

\* Faulty variant of split_once: a text without the delimiter falls under the
\* empty section.
split_once_or_default(s, c) ==
    IF HasChar(s, c)
    THEN LET i == FirstIndex(s, c)
         IN  Some(<<SubSeq(s, 1, i - 1), SubSeq(s, i + 1, Len(s))>>)
    ELSE Some(<<TxtEmpty, s>>)

\* str::split_once: the text before and after the first delimiter.
split_once(s, c) ==
    IF HasChar(s, c)
    THEN LET i == FirstIndex(s, c)
         IN  Some(<<SubSeq(s, 1, i - 1), SubSeq(s, i + 1, Len(s))>>)
    ELSE None

\* ReflectField::dump: get_from(config).to_string(); a String displays as
\* itself.
ReflectField_dump(field, cfg) == FallbackField_get_from(field, cfg).val

HeaderLine(section) == <<"[">> \o section \o <<"]", "\n">>
ValueLine(name, value) == <<"\t">> \o name \o <<" ", "=", " ">> \o value \o <<"\n">>

Returned(v) == [panicked |-> FALSE, val |-> v]

\* The `for field in fields` loop of dump with its two locals.
RECURSIVE DumpLoop(_, _, _, _)
DumpLoop(self, fields, output, prior_section) ==
    IF fields = <<>> THEN Returned(output)
    ELSE LET field == Head(fields)
             split == split_once(field.field.name, ".")
         IN  IF ~IsSome(split)
             THEN Panicked(<<"field is missing a section", field.field.name>>)
             ELSE LET section == Unwrap(split)[1]
                      name == Unwrap(split)[2]
                      headed == IF section # prior_section
                                THEN output \o HeaderLine(section)
                                ELSE output
                  IN  DumpLoop(self, Tail(fields),
                               headed \o ValueLine(name, ReflectField_dump(field, self)),
                               section)

\* Faulty variant of dump: prior_section is never updated, so every field
\* gets a header.
RECURSIVE DumpLoopStale(_, _, _)
DumpLoopStale(self, fields, output) ==
    IF fields = <<>> THEN Returned(output)
    ELSE LET field == Head(fields)
             split == split_once(field.field.name, ".")
         IN  IF ~IsSome(split)
             THEN Panicked(<<"field is missing a section", field.field.name>>)
             ELSE DumpLoopStale(self, Tail(fields),
                                output \o HeaderLine(Unwrap(split)[1])
                                       \o ValueLine(Unwrap(split)[2],
                                                    ReflectField_dump(field, self)))

dump_stale(self, fields) == DumpLoopStale(self, fields, <<>>)

dump(self, fields) == DumpLoop(self, fields, <<>>, <<>>)

(***************************************************************************)
(* The process environment a Config is built from.                         *)
(***************************************************************************)
CliItems(keys, vals) == keys \X ({None} \cup {Some(v) : v \in vals})
EnvItems(keys, vals) == keys \X vals

ResolverKeys == {KeyAB}
ResolverVals == {TxtFalse, TxtSeven, TxtX}
StoreVals == {TxtFalse, TxtMinus12, TxtEmpty}
DumpNames == {NameXA, NameXB, NameYC, NameNoDot}

\* Config::system(): the stores are read from the environment, and the system
\* file opens or not.
Constructed(system) ==
    /\ config = Config_system(cliParams, envPairs, system)
    /\ ret = [op |-> "system"]
    /\ fallbackCalls = 0

Init ==
    /\ cliParams \in BSeq(CliItems(ResolverKeys, ResolverVals), MaxEntries)
    /\ envPairs \in BSeq(EnvItems(ResolverKeys, ResolverVals), MaxEntries - Len(cliParams))
    /\ \E system \in {None} \cup {Some(h) : h \in SystemHandles(KeyAB)} :
           Constructed(system)

(***************************************************************************)
(* Operations on a Config.                                                 *)
(***************************************************************************)
\* Config::add_repo: the repository's config file opens or not.
AddRepo ==
    /\ \E opened \in {None} \cup {Some(h) : h \in RepoHandles(KeyAB)} :
           config' = add_repo(config, opened)
    /\ ret' = [op |-> "add_repo"]
    /\ fallbackCalls' = 0
    /\ UNCHANGED <<cliParams, envPairs>>

\* <Config as FieldReader<T>>::get_field, which is the typed getter of Config
\* for T (get_bool, get_i32, get_i64, get_string, get_path) plus the context.
GetField ==
    /\ \E ty \in Types, name \in Keys :
           ret' = [op |-> "get_field", ty |-> ty, name |-> name,
                   out |-> get_field(config, ty, name)]
    /\ fallbackCalls' = 0
    /\ UNCHANGED <<cliParams, envPairs, config>>

\* Config::get(&RawField<T>)
GetRaw ==
    /\ \E ty \in Types, name \in Keys :
           ret' = [op |-> "get_raw", ty |-> ty, name |-> name,
                   out |-> RawField_get_from(RawField(ty, name), config)]
    /\ fallbackCalls' = 0
    /\ UNCHANGED <<cliParams, envPairs, config>>

\* Config::get(&FallbackField<T>)
GotFallback(ty, name, got) ==
    /\ ret' = [op |-> "get_fallback", ty |-> ty, name |-> name, out |-> got.val]
    /\ fallbackCalls' = got.calls

GetFallback ==
    /\ \E ty \in Types, name \in Keys :
           GotFallback(ty, name, FallbackField_get_from(FallbackField(ty, name), config))
    /\ UNCHANGED <<cliParams, envPairs, config>>

Next == AddRepo \/ GetField \/ GetRaw \/ GetFallback

Spec == Init /\ [][Next]_vars

(***************************************************************************)
(* SpecStore: one Keyed Value Store built from a list of pairs, by either  *)
(* constructor, and its own typed getters.                                 *)
(***************************************************************************)
InitStore ==
    /\ \/ /\ cliParams \in BSeq(CliItems(Keys, StoreVals), MaxPairs)
          /\ envPairs = <<>>
       \/ /\ cliParams = <<>>
          /\ envPairs \in BSeq(EnvItems(Keys, StoreVals), MaxPairs)
    /\ Constructed(None)

\* <InMemoryConfig as ConfigSource>::get_bool / get_i32 / get_i64 / get_string
\* / get_path on the CLI store or the environment store.
StoreGet ==
    /\ \E which \in {"cli", "env"}, ty \in Types, name \in Keys :
           ret' = [op |-> "store_get", store |-> which, ty |-> ty, name |-> name,
                   out |-> InMemory_get(config[which], ty, name)]
    /\ fallbackCalls' = 0
    /\ UNCHANGED <<cliParams, envPairs, config>>

NextStore == StoreGet

SpecStore == InitStore /\ [][NextStore]_vars

(***************************************************************************)
(* SpecDump: Config::dump over lists of FallbackField<String> fields.      *)
(***************************************************************************)
InitDump ==
    /\ cliParams \in {<<>>, << <<NameXA, Some(TxtX)>> >>}
    /\ envPairs = <<>>
    /\ Constructed(None)

DumpAddRepo ==
    /\ \E opened \in {None, Some(Git2Handle("repo", NameYC, EntryText(<<"r">>)))} :
           config' = add_repo(config, opened)
    /\ ret' = [op |-> "add_repo"]
    /\ fallbackCalls' = 0
    /\ UNCHANGED <<cliParams, envPairs>>

FieldsOf(names) == [i \in 1..Len(names) |-> FallbackField("string", names[i])]

Dump ==
    /\ \E names \in BSeq(DumpNames, MaxFields) :
           ret' = [op |-> "dump", names |-> names,
                   out |-> dump(config, FieldsOf(names))]
    /\ fallbackCalls' = 0
    /\ UNCHANGED <<cliParams, envPairs, config>>

NextDump == DumpAddRepo \/ Dump

SpecDump == InitDump /\ [][NextDump]_vars

(***************************************************************************)
(* Vocabulary of the properties, stated on the fields of the Config and    *)
(* on the environment it was built from, not through sources().            *)
(***************************************************************************)
Precedence == <<"cli", "env", "repo", "system">>

SourcePresent(which) == which \in {"cli", "env"} \/ IsSome(config[which])

\* What the source answers when asked alone.
SourceAnswer(which, ty, name) ==
    IF which \in {"cli", "env"}
    THEN InMemory_get(config[which], ty, name)
    ELSE Git2_get(Unwrap(config[which]), ty, name)

Winners(ty, name) ==
    {i \in 1..Len(Precedence) :
        /\ SourcePresent(Precedence[i])
        /\ SourceAnswer(Precedence[i], ty, name).ok}

Lowest(S) == CHOOSE x \in S : \A y \in S : x <= y
Highest(S) == CHOOSE x \in S : \A y \in S : x >= y

AllSourcesFail(ty, name) == Winners(ty, name) = {}

HoldsKey(which, name) ==
    IF which \in {"cli", "env"}
    THEN name \in DOMAIN config[which].values
    ELSE IsSome(config[which]) /\ name \in DOMAIN Unwrap(config[which]).table

StoredText(which, name) == Last(config[which].values[name])

InBothWithDifferentValues(name) ==
    /\ HoldsKey("cli", name)
    /\ HoldsKey("env", name)
    /\ StoredText("cli", name) # StoredText("env", name)

\* The pairs a store was built from.
PairsOf(which) ==
    IF which = "env" THEN envPairs
    ELSE [i \in 1..Len(cliParams) |-> UnwrapOrTrue(cliParams[i])]

Occurrences(pairs, name) == {i \in 1..Len(pairs) : pairs[i][1] = name}

(***************************************************************************)
(* C1.  The claim as written: for a key held by both the CLI store and the *)
(* environment store with different values, every typed getter of Config   *)
(* returns the CLI store's value, whatever the repository and system       *)
(* sources hold.  The code refutes it: a CLI text that does not parse as   *)
(* the requested type is skipped, and the environment's value is returned. *)
(* Stated here in its weakest reading: the getter answers what the CLI     *)
(* store answers.                                                          *)
(***************************************************************************)
C1_CliValueAlwaysReturned ==
    (ret.op = "get_field" /\ InBothWithDifferentValues(ret.name))
        => ret.out = WithContext(SourceAnswer("cli", ret.ty, ret.name), ret.name)

\* C1 as amended: for such a key, a typed getter returns the CLI store's
\* value whenever the CLI store's own lookup of that type succeeds, which it
\* always does for get_string and get_path.
C1_CliValueReturnedWhenItParses ==
    (ret.op = "get_field" /\ InBothWithDifferentValues(ret.name))
        => /\ ret.ty \in {"string", "path"} => SourceAnswer("cli", ret.ty, ret.name).ok
           /\ SourceAnswer("cli", ret.ty, ret.name).ok
                  => ret.out = SourceAnswer("cli", ret.ty, ret.name)

C1_Witness ==
    /\ ret.op = "get_field"
    /\ ret.ty = "i32"
    /\ InBothWithDifferentValues(ret.name)
    /\ StoredText("cli", ret.name) = TxtSeven
    /\ IsSome(config.repo) /\ HoldsKey("repo", ret.name)
    /\ IsSome(config.system) /\ HoldsKey("system", ret.name)
    /\ ret.out = Ok(7)

(***************************************************************************)
(* C2.  get_bool of Config treats a key absent from a store as a failed    *)
(* lookup in that store: with the key absent from the CLI store the        *)
(* boolean of the environment store is returned, and the lookup fails when *)
(* no source holds the key.  The code refutes it: an absent key reads as   *)
(* "true" in InMemoryConfig::get_bool, so the CLI store always answers.    *)
(***************************************************************************)
C2_AbsentKeyFailsBoolLookup ==
    (ret.op = "get_field" /\ ret.ty = "bool" /\ ~HoldsKey("cli", ret.name))
        => /\ (HoldsKey("env", ret.name) /\ ParseBool(StoredText("env", ret.name)).ok)
                  => ret.out = ParseBool(StoredText("env", ret.name))
           /\ (\A i \in 1..Len(Precedence) : ~HoldsKey(Precedence[i], ret.name))
                  => ~ret.out.ok

(***************************************************************************)
(* C3.  RawField<i32>::get is None when no present source holds the key,   *)
(* and otherwise Some(n) exactly when some source's i32 lookup succeeds, n *)
(* being the answer of the first such source in the order CLI,             *)
(* environment, repository, system.                                        *)
(***************************************************************************)
C3_RawI32FollowsPrecedence ==
    (ret.op = "get_raw" /\ ret.ty = "i32")
        => /\ (\A i \in 1..Len(Precedence) : ~HoldsKey(Precedence[i], ret.name))
                  => ret.out = None
           /\ ret.out =
                  IF AllSourcesFail("i32", ret.name) THEN None
                  ELSE Some(SourceAnswer(Precedence[Lowest(Winners("i32", ret.name))],
                                         "i32", ret.name).val)

C3_Witness ==
    /\ ret.op = "get_raw"
    /\ ret.ty = "i32"
    /\ HoldsKey("cli", ret.name) /\ StoredText("cli", ret.name) = TxtX
    /\ ~HoldsKey("env", ret.name)
    /\ Winners("i32", ret.name) = {3, 4}
    /\ ret.out = Some(8)

(***************************************************************************)
(* C4.  When every present source fails a typed lookup, Config returns the *)
(* failure of the CLI store for that key and type, and get_field wraps it  *)
(* in the context "failed to read `<field-name>`".                         *)
(***************************************************************************)
C4_FirstSourceFailureSurfaces ==
    (ret.op = "get_field" /\ AllSourcesFail(ret.ty, ret.name))
        => /\ Config_get(config, ret.ty, ret.name) = SourceAnswer("cli", ret.ty, ret.name)
           /\ ret.out = Err([context |-> "failed to read", field |-> ret.name,
                             source |-> SourceAnswer("cli", ret.ty, ret.name).err])

C4_Witness ==
    /\ ret.op = "get_field"
    /\ ret.ty = "i32"
    /\ AllSourcesFail(ret.ty, ret.name)
    /\ ~HoldsKey("cli", ret.name)
    /\ HoldsKey("env", ret.name)
    /\ HoldsKey("repo", ret.name)
    /\ SourceAnswer("env", ret.ty, ret.name).err # SourceAnswer("cli", ret.ty, ret.name).err
    /\ ret.out.err.source = "field is missing"

(***************************************************************************)
(* C5.  FallbackField<T>::get returns the raw value without running the    *)
(* fallback function when some source answers, and the result of exactly   *)
(* one run of the fallback function when every source fails.               *)
(***************************************************************************)
C5_FallbackOnlyWhenAbsent ==
    ret.op = "get_fallback"
        => IF AllSourcesFail(ret.ty, ret.name)
           THEN /\ fallbackCalls = 1
                /\ ret.out = Fallback(ret.ty, config)
           ELSE /\ fallbackCalls = 0
                /\ Some(ret.out) = RawField_get_from(RawField(ret.ty, ret.name), config)

C5_Witness ==
    /\ ret.op = "get_fallback"
    /\ ret.ty = "string"
    /\ ~HoldsKey("cli", ret.name)
    /\ HoldsKey("env", ret.name)
    /\ ret.out = StoredText("env", ret.name)
    /\ ret.out # Fallback(ret.ty, config)
    /\ fallbackCalls = 0

(***************************************************************************)
(* C6.  get_string(k) of a store built from a list of pairs returns the    *)
(* value of the last pair whose key is k, and fails with "field is         *)
(* missing" exactly when no pair has key k.                                *)
(***************************************************************************)
C6_LastValueWins ==
    (ret.op = "store_get" /\ ret.ty = "string")
        => ret.out =
               IF Occurrences(PairsOf(ret.store), ret.name) = {}
               THEN Err("field is missing")
               ELSE Ok(PairsOf(ret.store)[Highest(Occurrences(PairsOf(ret.store),
                                                              ret.name))][2])

C6_Witness ==
    /\ ret.op = "store_get"
    /\ ret.ty = "string"
    /\ ret.store = "env"
    /\ Len(envPairs) = 2
    /\ envPairs[1][1] = ret.name
    /\ envPairs[2][1] = ret.name
    /\ envPairs[1][2] # envPairs[2][2]
    /\ ret.out = Ok(envPairs[2][2])

(***************************************************************************)
(* C7.  The claim as written: for a store built from a flag-style pair     *)
(* whose value is the empty text, get_bool on that key returns true.  The  *)
(* code refutes it: the empty text is no boolean literal.                  *)
(***************************************************************************)
C7_EmptyTextReadsTrue ==
    (/\ ret.op = "store_get"
     /\ ret.ty = "bool"
     /\ HoldsKey(ret.store, ret.name)
     /\ StoredText(ret.store, ret.name) = TxtEmpty)
        => ret.out = Ok(TRUE)

\* C7 as amended: for the CLI store, built by git_cli, get_bool returns true
\* on a key whose last parameter has no value (None); on a key whose stored
\* value is the empty text get_bool fails to parse.
C7_ValuelessFlagReadsTrue ==
    (ret.op = "store_get" /\ ret.ty = "bool" /\ HoldsKey(ret.store, ret.name))
        => /\ (/\ ret.store = "cli"
               /\ ~IsSome(cliParams[Highest(Occurrences(cliParams, ret.name))][2]))
                  => ret.out = Ok(TRUE)
           /\ StoredText(ret.store, ret.name) = TxtEmpty
                  => ret.out = Err("ParseBoolError")

C7_Witness ==
    /\ ret.op = "store_get"
    /\ ret.ty = "bool"
    /\ ret.store = "cli"
    /\ cliParams = << <<KeyFlag, None>> >>
    /\ ret.name = KeyFlag
    /\ ret.out = Ok(TRUE)

(***************************************************************************)
(* C8.  For fields whose names all contain a '.', dump emits one           *)
(* `key = value` line per field in the given order, with a `[section]`     *)
(* header immediately before a field's line exactly when its section       *)
(* differs from that of the preceding field (the empty section before the  *)
(* first); nothing is sorted or deduplicated.                              *)
(***************************************************************************)
Dots(name) == {i \in 1..Len(name) : name[i] = "."}
SectionOf(name) == SubSeq(name, 1, Lowest(Dots(name)) - 1)
KeyOf(name) == SubSeq(name, Lowest(Dots(name)) + 1, Len(name))
PrecedingSection(names, i) == IF i = 1 THEN <<>> ELSE SectionOf(names[i - 1])
OpensSection(names, i) == SectionOf(names[i]) # PrecedingSection(names, i)

RenderedValue(name) == FallbackField_get_from(FallbackField("string", name), config).val

\* The lines field i contributes.
BlockOf(names, i) ==
    (IF OpensSection(names, i) THEN HeaderLine(SectionOf(names[i])) ELSE <<>>)
        \o ValueLine(KeyOf(names[i]), RenderedValue(names[i]))

RECURSIVE BlocksUpTo(_, _)
BlocksUpTo(names, n) ==
    IF n = 0 THEN <<>> ELSE BlocksUpTo(names, n - 1) \o BlockOf(names, n)

CountOf(text, c) == Cardinality({i \in 1..Len(text) : text[i] = c})

C8_DumpGroupsBySectionInOrder ==
    (ret.op = "dump" /\ \A i \in 1..Len(ret.names) : Dots(ret.names[i]) # {})
        => /\ ret.out = Returned(BlocksUpTo(ret.names, Len(ret.names)))
           /\ CountOf(ret.out.val, "[") =
                  Cardinality({i \in 1..Len(ret.names) : OpensSection(ret.names, i)})
           /\ CountOf(ret.out.val, "=") = Len(ret.names)

C8_Witness ==
    /\ ret.op = "dump"
    /\ ret.names = <<NameXA, NameYC, NameXB>>
    /\ ~ret.out.panicked
    /\ CountOf(ret.out.val, "[") = 3
    /\ CountOf(ret.out.val, "=") = 3

(***************************************************************************)
(* C9.  If a field name lacks the '.', dump panics at the first such field *)
(* and returns no output, not even for the fields before it.               *)
(***************************************************************************)
Malformed(names) == {i \in 1..Len(names) : Dots(names[i]) = {}}

C9_DumpPanicsOnMissingSection ==
    (ret.op = "dump" /\ Malformed(ret.names) # {})
        => /\ ret.out.panicked
           /\ "val" \notin DOMAIN ret.out
           /\ ret.out.msg = <<"field is missing a section",
                              ret.names[Lowest(Malformed(ret.names))]>>

C9_Witness ==
    /\ ret.op = "dump"
    /\ ret.names = <<NameXA, NameNoDot>>
    /\ ret.out.panicked

(***************************************************************************)
(* C10.  In every state reached from Config::system() by add_repo calls    *)
(* and lookups, the source list holds the CLI store, the environment       *)
(* store, then the repository source if present, then the system source if *)
(* present, so a lookup never panics on "always a source"; add_repo        *)
(* changes only the repository source and a lookup changes nothing.        *)
(***************************************************************************)
OptionalCount == (IF IsSome(config.repo) THEN 1 ELSE 0) + (IF IsSome(config.system) THEN 1 ELSE 0)

SourcesInPrecedenceOrder ==
    /\ Len(sources(config)) = 2 + OptionalCount
    /\ sources(config)[1] = MemSource(config.cli)
    /\ config.cli.name = "git-cli"
    /\ sources(config)[2] = MemSource(config.env)
    /\ config.env.name = "git-config-env"
    /\ IsSome(config.repo) => sources(config)[3] = Git2Source(Unwrap(config.repo))
    /\ IsSome(config.system)
           => sources(config)[2 + OptionalCount] = Git2Source(Unwrap(config.system))
    /\ \A ty \in Types, name \in Keys : ~IsPanic(Config_get(config, ty, name))

OnlyAddRepoChangesConfig ==
    /\ ret'.op # "add_repo" => config' = config
    /\ config'.cli = config.cli
    /\ config'.env = config.env
    /\ config'.system = config.system

C10_SourcesNeverEmptyAndOrdered ==
    [](SourcesInPrecedenceOrder) /\ [][OnlyAddRepoChangesConfig]_vars

C10_Witness ==
    /\ ret.op = "get_field"
    /\ IsSome(config.repo)
    /\ ~IsSome(config.system)
    /\ AllSourcesFail(ret.ty, ret.name)
    /\ ~ret.out.ok

====
